---- MODULE Spec2Model ----
(***************************************************************************)
(* State-machine model of the MCP transport proxy (mcp-sse-proxy).         *)
(*                                                                         *)
(* The proxy is an Express application.  One input strategy (SSE or        *)
(* streamable HTTP) accepts clients, one output strategy (SSE or           *)
(* streamable HTTP) talks to the upstream server.  Node runs every handler *)
(* to its next `await`, so one action of the model is one such run: from   *)
(* the arrival of an event (a request, a timer tick, the settling of a     *)
(* promise, a stream event) to the next suspension point.                  *)
(***************************************************************************)
EXTENDS Integers, Sequences, FiniteSets, TLC

\* ------------------------------------------------------------------ bounds
MaxConn  == 2      \* frontend connections (GET /sse or POST /mcp) in a run
MaxPost  == 2      \* handleMessage invocations (POST bodies) in a run
MaxClock == 1      \* Date.now() ranges over 0..MaxClock
MaxPing  == 1      \* heartbeat ticks per connection that find the socket live
MaxEvent == 7      \* handler runs (events delivered to the process) in a run

Conns == 1..MaxConn
Posts == 1..MaxPost
Clock == 0..MaxClock

\* ------------------------------------------------------------- JSON frames
Absent == "undefined"                \* a field that is missing / undefined

InternalError == 0 - 32603           \* JSON-RPC "Internal error"

NoError == [code |-> 0, message |-> Absent]

\* A JSON-RPC frame.  `extra` stands for a field outside the envelope set.
Frame(jsonrpc, method, id, result, error, extra) ==
  [jsonrpc |-> jsonrpc, method |-> method, id |-> id,
   result |-> result, error |-> error, extra |-> extra]

NoFrame == Frame(Absent, Absent, Absent, Absent, NoError, Absent)

Request(id)   == Frame("2.0", "ping", id, Absent, NoError, Absent)
Notification  == Frame("2.0", "tick", Absent, Absent, NoError, Absent)
Result(id)    == Frame("2.0", Absent, id, "ok", NoError, Absent)

\* A request with a field outside the envelope set, a frame without `method`
\* (what a client sends when it answers a request), a frame without `jsonrpc`.
WithExtra == Frame("2.0", "ping", "a", Absent, NoError, "x")
NoMethod  == Frame("2.0", Absent, "a", "ok", NoError, Absent)
NoJsonRpc == Frame(Absent, Absent, "a", "ok", NoError, Absent)

\* Frames a client may POST and frames the upstream may put on the wire.
ClientFrames   == {Request("a"), Notification, WithExtra, NoMethod}
UpstreamFrames == {Result("a"), Result("b"), Notification}

\* --------------------------------------------------------------- session ids
NoSuffix == ""
Suffixes == {"r1", "r2"}                   \* values of Math.random().toString(36)

Sid(t, r) == [t |-> t, r |-> r]
NoSid     == Sid(0 - 1, NoSuffix)

\* SSEInputStrategy: const sessionId = Date.now().toString()
SseSessionId(t) == Sid(t, NoSuffix)

\* StreamableHttpInputStrategy: `http-${Date.now()}-${Math.random()...}`
HttpSessionId(t, r) == Sid(t, r)

\* Every :sessionId a client may put in POST /messages/:sessionId
PostableIds == {SseSessionId(t) : t \in Clock}

\* ------------------------------------------------------------ JS Map (ordered)
\* A Map is a sequence of <<key, value>> entries in insertion order.
MapKeys(m) == {m[i][1] : i \in 1..Len(m)}
MapHas(m, k) == k \in MapKeys(m)
MapIndex(m, k) == CHOOSE i \in 1..Len(m) : m[i][1] = k
MapGet(m, k) == m[MapIndex(m, k)][2]
MapSet(m, k, v) ==
  IF MapHas(m, k) THEN [m EXCEPT ![MapIndex(m, k)] = <<k, v>>]
  ELSE Append(m, <<k, v>>)
MapDelete(m, k) ==
  IF MapHas(m, k)
  THEN [i \in 1..(Len(m) - 1) |-> IF i < MapIndex(m, k) THEN m[i] ELSE m[i + 1]]
  ELSE m
MapSize(m) == Len(m)

\* ------------------------------------------------- records on a frontend stream
Rec(kind, frame, sid) == [kind |-> kind, frame |-> frame, sid |-> sid]

\* `event: endpoint\ndata: messages/${sessionId}\n\n`
EndpointEvent(sid) == Rec("endpoint", NoFrame, sid)
\* `event: message\ndata: ${JSON.stringify(response)}\n\n`
MessageEvent(f) == Rec("message", f, NoSid)
\* `event: error\ndata: ${JSON.stringify({ error: error.message })}\n\n`
ErrorEvent == Rec("error", NoFrame, NoSid)
\* `:ping\n\n`
PingComment == Rec("ping", NoFrame, NoSid)
\* JSON.stringify(response) + '\n'
NdjsonLine(f) == Rec("ndjson", f, NoSid)

\* The bytes of a record as the code formats it, in tokens: a field line's
\* text ("event", "data"), a comment's text, a JSON text, and the newline.
\* JSON.stringify puts no raw newline in its output.
\* (mutation: the heartbeat comment is followed by one newline only)
SseBytes_PingOneNewline(rec) ==
  IF rec.kind = "ping" THEN <<"comment", "nl">>
  ELSE <<"event", "nl", "data", "nl", "nl">>

\* `event: <name>\ndata: <text>\n\n` and `:ping\n\n`
SseBytes(rec) ==
  IF rec.kind = "ping" THEN <<"comment", "nl", "nl">>
  ELSE <<"event", "nl", "data", "nl", "nl">>

\* JSON.stringify(response) + '\n'
NdjsonBytes(rec) == <<"json", "nl">>

RecBytes(rec) == IF rec.kind = "ndjson" THEN NdjsonBytes(rec) ELSE SseBytes(rec)

\* Everything written to a response, in order.
RECURSIVE Wire(_)
Wire(stream) ==
  IF stream = <<>> THEN <<>> ELSE RecBytes(Head(stream)) \o Wire(Tail(stream))

\* ---------------------------------------------------------------- variables
VARIABLES
  inputMode,        \* argv.inputMode:  "sse" | "streamable"
  outputMode,       \* argv.outputMode: "sse" | "streamable"
  proc,             \* the process: "running" | "shutting" | "exited" | "crashed"
  now,              \* the value Date.now() returns
  sessions,         \* SSEInputStrategy.sessions : Map sessionId -> SessionInfo
  upstreamClients,  \* SSEOutputStrategy.upstreamClients : Map sessionId -> Client
  conn,             \* per frontend connection: the handler and its response
                    \*   (recv: the frames the upstream delivered for it)
  client,           \* per connection: the upstream SDK Client created for it
  post,             \* per POST body: the handleMessage invocation
                    \*   (from: the connection of the client that sent it;
                    \*    cause: why client.request rejected)
  sentUp,           \* frames handed to the upstream, in order
  shutIdx,          \* SSEOutputStrategy.shutdown: entry whose close() is awaited
  events,           \* handler runs so far (bounds the length of a behaviour)
  dec,              \* one upstream NDJSON body and what its 'data' events gave
  pump              \* one frontend response and the records it has not sent

vars == <<inputMode, outputMode, proc, now, sessions, upstreamClients,
          conn, client, post, sentUp, shutIdx, events, dec, pump>>

\* No response is followed write by write.
NoPump == [st |-> "none", draining |-> TRUE, held |-> <<>>, read |-> 0]

\* No upstream body is followed byte by byte.
NoBody == [st |-> "none", body |-> <<>>, rest |-> <<>>, out |-> <<>>,
           fed |-> 0, cut |-> FALSE]

\* A SessionInfo object is identified with the connection that created it.
FreeConn ==
  [st |-> "free", sid |-> NoSid, stream |-> <<>>, ended |-> FALSE,
   gone |-> FALSE, hb |-> FALSE, pings |-> 0, notes |-> 0,
   rejected |-> FALSE, wae |-> FALSE, recv |-> <<>>]

IdlePost ==
  [pc |-> "idle", sid |-> NoSid, from |-> 0, conn |-> 0, client |-> 0,
   frame |-> NoFrame, status |-> 0, body |-> Absent, chunks |-> 0,
   cause |-> "none"]

Init ==
  /\ dec = NoBody
  /\ pump = NoPump
  /\ inputMode \in {"sse", "streamable"}
  /\ outputMode \in {"sse", "streamable"}
  /\ proc = "running"
  /\ now = 0
  /\ sessions = <<>>
  /\ upstreamClients = <<>>
  /\ conn = [c \in Conns |-> FreeConn]
  /\ client = [c \in Conns |-> "none"]
  /\ post = [p \in Posts |-> IdlePost]
  /\ sentUp = <<>>
  /\ shutIdx = 0
  /\ events = 0

\* The server answers requests until process.exit or a crash.
Serving == proc \in {"running", "shutting"}

\* ------------------------------------------------------------ response writes
\* res.write(record) on connection record r: after res.end() nothing is
\* written and Node reports ERR_STREAM_WRITE_AFTER_END; on a destroyed socket
\* the bytes are dropped; otherwise the record goes out whole.
ResWrite(r, rec) ==
  IF r.ended THEN [r EXCEPT !.wae = TRUE]
  ELSE IF r.gone THEN r
  ELSE [r EXCEPT !.stream = Append(@, rec)]

\* res.end()
ResEnd(r) == [r EXCEPT !.ended = TRUE]

\* An 'error' event nobody listens to, or a rejection nobody handles, ends
\* the process or not, depending on the Node / Express versions of the build.
ProcAfterFault(fault) == IF fault THEN {proc, "crashed"} ELSE {proc}

NewWae(cn) == \E c \in Conns : cn[c].wae /\ ~conn[c].wae

\* One event is delivered to the process and its handler runs.
Budget == events < MaxEvent /\ events' = events + 1

\* -------------------------------------------------------------------- clock
Tick ==
  /\ Budget
  /\ UNCHANGED <<dec, pump>>
  /\ Serving
  /\ now < MaxClock
  /\ now' = now + 1
  /\ UNCHANGED <<inputMode, outputMode, proc, sessions, upstreamClients,
                 conn, client, post, sentUp, shutIdx>>

\* ----------------------------------------------- JSON-RPC frames the proxy builds
\* { jsonrpc: '2.0', id, error: { code: -32603, message, data } }
ErrorResponse(id, message) ==
  Frame("2.0", Absent, id, Absent, [code |-> InternalError, message |-> message], Absent)

\* { jsonrpc: '2.0', id, result: response }
ResultResponse(id, result) == Frame("2.0", Absent, id, result, NoError, Absent)

\* { jsonrpc: '2.0', method: notification.method, params: notification.params }
NotificationMessage(n) == Frame("2.0", n.method, Absent, Absent, NoError, Absent)

\* sendToStreamableEndpoint: request = { jsonrpc: '2.0', method, params, id }
StreamableRequest(f) == Frame("2.0", f.method, f.id, Absent, NoError, Absent)

\* client.request({ method, params }): the SDK numbers the request itself.
SdkRequest(f) == Frame("2.0", f.method, "sdk", Absent, NoError, Absent)

\* client.notification({ method, params })
SdkNotification(f) == Frame("2.0", f.method, Absent, Absent, NoError, Absent)

\* --------------------------------------------------- InputStrategy.sendResponse
\* SSEInputStrategy.sendResponse: one `event: message` record on the held GET.
SseSendResponse(r, f) == ResWrite(r, MessageEvent(f))

\* StreamableHttpInputStrategy.sendResponse: one NDJSON line; a frame with an
\* id ends the response.
HttpSendResponse(r, f) ==
  IF f.id # Absent THEN ResEnd(ResWrite(r, NdjsonLine(f)))
  ELSE ResWrite(r, NdjsonLine(f))

\* sessionInfo.inputStrategy.sendResponse(sessionInfo, response)
SendResponse(cn, c, f) ==
  [cn EXCEPT ![c] = IF inputMode = "sse" THEN SseSendResponse(@, f)
                    ELSE HttpSendResponse(@, f)]

\* (mutation: the lines of a chunk are handed on last to first)
RECURSIVE SendAll_Reversed(_, _, _)
SendAll_Reversed(cn, c, fs) ==
  IF fs = <<>> THEN cn
  ELSE SendResponse(SendAll_Reversed(cn, c, Tail(fs)), c, Head(fs))

RECURSIVE SendAll(_, _, _)
SendAll(cn, c, fs) ==
  IF fs = <<>> THEN cn
  ELSE SendAll(SendResponse(cn, c, Head(fs)), c, Tail(fs))

\* The frames fs have arrived from the upstream for connection c.
Received(cn, c, fs) == [cn EXCEPT ![c].recv = @ \o fs]

\* ------------------------------------------------------------ slot allocation
FreeConns == {c \in Conns : conn[c].st = "free"}
IdlePosts == {p \in Posts : post[p].pc = "idle"}
NextConn == CHOOSE c \in FreeConns : \A d \in FreeConns : c <= d
NextPost == CHOOSE p \in IdlePosts : \A q \in IdlePosts : p <= q

\* ------------------------------------------------------ SSE input: GET <sse_path>
\* (mutation: the session is never stored)
StoreSession_Skip(m, sid, c) == m

\* this.sessions.set(sessionId, sessionInfo)
StoreSession(m, sid, c) == MapSet(m, sid, c)

\* (mutation: the response is left open after the error record)
FailConnection_NoEnd(r) == ResWrite(r, ErrorEvent)

\* The catch of handleConnection: write `event: error`, then res.end().
FailConnection(r) == ResEnd(ResWrite(r, ErrorEvent))

\* SSEInputStrategy.handleConnection up to its first await: mint the id, send
\* the headers, store the session, write the endpoint event, then either start
\* the upstream connect (SSE output) or install heartbeat and close listener.
Connect(c) ==
  /\ Budget
  /\ UNCHANGED <<dec, pump>>
  /\ Serving
  /\ inputMode = "sse"
  /\ FreeConns # {}
  /\ c = NextConn
  /\ LET sid == SseSessionId(now)
         opened == [conn[c] EXCEPT !.sid = sid,
                                   !.stream = Append(@, EndpointEvent(sid))]
     IN /\ sessions' = StoreSession(sessions, sid, c)
        /\ IF outputMode = "sse"
           THEN /\ upstreamClients' = MapSet(upstreamClients, sid, c)
                /\ client' = [client EXCEPT ![c] = "connecting"]
                /\ conn' = [conn EXCEPT ![c] = [opened EXCEPT !.st = "connecting"]]
           ELSE /\ conn' = [conn EXCEPT ![c] = [opened EXCEPT !.st = "open", !.hb = TRUE]]
                /\ UNCHANGED <<upstreamClients, client>>
  /\ UNCHANGED <<inputMode, outputMode, proc, now, post, sentUp, shutIdx>>

\* `await client.connect(transport)` resolves: the notification handler is
\* installed, then the heartbeat timer and the request's close listener.
ConnectOk(c) ==
  /\ Budget
  /\ UNCHANGED <<dec, pump>>
  /\ Serving
  /\ conn[c].st = "connecting"
  /\ client[c] = "connecting"
  /\ client' = [client EXCEPT ![c] = "connected"]
  /\ conn' = [conn EXCEPT ![c].st = "open", ![c].hb = TRUE]
  /\ UNCHANGED <<inputMode, outputMode, proc, now, sessions, upstreamClients,
                 post, sentUp, shutIdx>>

\* `await client.connect(transport)` rejects: SSEOutputStrategy logs and
\* rethrows; SSEInputStrategy's catch writes `event: error`, ends the response
\* and rethrows, so the route handler's promise rejects.
ConnectFail(c) ==
  /\ Budget
  /\ UNCHANGED <<dec, pump>>
  /\ Serving
  /\ conn[c].st = "connecting"
  /\ client[c] \in {"connecting", "closed"}
  /\ client' = [client EXCEPT ![c] = "failed"]
  /\ conn' = [conn EXCEPT ![c] =
                [FailConnection(@) EXCEPT !.st = "failed", !.rejected = TRUE]]
  /\ proc' \in ProcAfterFault(TRUE)
  /\ UNCHANGED <<inputMode, outputMode, now, sessions, upstreamClients,
                 post, sentUp, shutIdx>>

\* The client drops the connection: the socket is destroyed and the request
\* emits 'close'.  Only a listener that is already registered runs.
ClientClose(c) ==
  /\ Budget
  /\ UNCHANGED <<dec, pump>>
  /\ Serving
  /\ conn[c].st \in {"connecting", "open", "http"}
  /\ ~conn[c].gone
  /\ ~conn[c].ended
  /\ IF conn[c].st = "open"
     THEN /\ conn' = [conn EXCEPT ![c].gone = TRUE, ![c].hb = FALSE,
                                  ![c].st = "closed"]
          /\ sessions' = MapDelete(sessions, conn[c].sid)
     ELSE /\ conn' = [conn EXCEPT ![c].gone = TRUE]
          /\ UNCHANGED sessions
  /\ UNCHANGED <<inputMode, outputMode, proc, now, upstreamClients, client,
                 post, sentUp, shutIdx>>

\* (mutation: the tick writes without looking at the socket)
Heartbeat_NoCheck(c) ==
  /\ Budget
  /\ UNCHANGED <<dec, pump>>
  /\ Serving
  /\ conn[c].hb
  /\ conn[c].pings < MaxPing
  /\ conn' = [conn EXCEPT ![c] = [ResWrite(@, PingComment) EXCEPT !.pings = @ + 1]]
  /\ UNCHANGED <<inputMode, outputMode, proc, now, sessions, upstreamClients,
                 client, post, sentUp, shutIdx>>

\* The 30 s interval fires.
Heartbeat(c) ==
  /\ Budget
  /\ UNCHANGED <<dec, pump>>
  /\ Serving
  /\ conn[c].hb
  /\ IF conn[c].gone
     THEN conn' = [conn EXCEPT ![c].hb = FALSE]
     ELSE /\ conn[c].pings < MaxPing
          /\ conn' = [conn EXCEPT ![c] =
                        [ResWrite(@, PingComment) EXCEPT !.pings = @ + 1]]
  /\ UNCHANGED <<inputMode, outputMode, proc, now, sessions, upstreamClients,
                 client, post, sentUp, shutIdx>>

\* --------------------------------------------------- OutputStrategy.handleMessage
\* What the route handler does once handleMessage has returned: the SSE
\* frontend answers `res.status(202).send()`, the HTTP frontend nothing.
Finished(rec) ==
  IF inputMode = "sse"
  THEN [rec EXCEPT !.pc = "done", !.status = 202, !.body = ""]
  ELSE [rec EXCEPT !.pc = "done"]

\* The same, after handleMessage took its error path (the frame was not
\* forwarded, or its forwarding failed).
Failed(rec) == [Finished(rec) EXCEPT !.pc = "failed"]

\* (mutation: a miss is answered like a hit)
NotFound_Accepted(rec) == Finished(rec)

\* res.status(404).json({ error: 'Session not found' })
NotFound(rec) ==
  [rec EXCEPT !.pc = "done", !.status = 404, !.body = "Session not found"]

\* Whether the SDK client takes a frame: a connected client does, a failed or
\* closed one rejects, one whose connect is in progress may do either (the
\* transport has or has not learned the upstream's endpoint yet).
ClientAccepts(k) ==
  IF client[k] = "connected" THEN {TRUE}
  ELSE IF client[k] = "connecting" THEN {TRUE, FALSE}
  ELSE {FALSE}

\* handleMessage fails before any await settles on the network: the error
\* frame goes to the frontend and handleMessage returns.
FailNow(p, c, rec, cn, message) ==
  LET cn2 == SendResponse(cn, c, ErrorResponse(rec.frame.id, message))
  IN /\ conn' = cn2
     /\ post' = [post EXCEPT ![p] = Failed(rec)]
     /\ proc' \in ProcAfterFault(NewWae(cn2))
     /\ UNCHANGED sentUp

\* StreamableHttpOutputStrategy.handleMessage up to `await axios.post(...)`.
StreamableHandleMessage(p, c, rec, cn) ==
  /\ sentUp' = Append(sentUp, [conn |-> c, post |-> p,
                                frame |-> StreamableRequest(rec.frame)])
  /\ post' = [post EXCEPT ![p] = [rec EXCEPT !.pc = "awaitPost"]]
  /\ conn' = cn
  /\ UNCHANGED proc

\* SSEOutputStrategy.handleMessage up to `await client.request(...)` or
\* `await client.notification(...)`.
SseHandleMessage(p, c, rec, cn) ==
  IF ~MapHas(upstreamClients, cn[c].sid)
  THEN FailNow(p, c, rec, cn, "No upstream connection found")
  ELSE LET k == MapGet(upstreamClients, cn[c].sid)
       IN \E ok \in ClientAccepts(k) :
            IF ok
            THEN /\ sentUp' = Append(sentUp,
                       [conn |-> c, post |-> p,
                        frame |-> IF rec.frame.id # Absent
                                  THEN SdkRequest(rec.frame)
                                  ELSE SdkNotification(rec.frame)])
                 /\ post' = [post EXCEPT ![p] =
                       [rec EXCEPT !.client = k,
                                   !.pc = IF rec.frame.id # Absent
                                          THEN "awaitReply" ELSE "awaitNotify"]]
                 /\ conn' = cn
                 /\ UNCHANGED proc
            ELSE FailNow(p, c, rec, cn, "Not connected")

HandleMessage(p, c, rec, cn) ==
  IF outputMode = "sse" THEN SseHandleMessage(p, c, rec, cn)
  ELSE StreamableHandleMessage(p, c, rec, cn)

\* ------------------------------------------ SSE input: POST /messages/:sessionId
\* The clients that can POST to /messages/<sid>: those whose endpoint event
\* named it (0 stands for a client that was given no such id).
Holders(sid) ==
  IF \E d \in Conns : conn[d].st # "free" /\ conn[d].sid = sid
  THEN {d \in Conns : conn[d].st # "free" /\ conn[d].sid = sid}
  ELSE {0}

PostMessage(p, sid, f) ==
  /\ Budget
  /\ UNCHANGED <<dec, pump>>
  /\ Serving
  /\ inputMode = "sse"
  /\ IdlePosts # {}
  /\ p = NextPost
  /\ \E from \in Holders(sid) :
     LET rec == [IdlePost EXCEPT !.sid = sid, !.from = from, !.frame = f]
     IN IF ~MapHas(sessions, sid)
        THEN /\ post' = [post EXCEPT ![p] = NotFound(rec)]
             /\ UNCHANGED <<conn, sentUp, proc>>
        ELSE HandleMessage(p, MapGet(sessions, sid),
                           [rec EXCEPT !.conn = MapGet(sessions, sid)], conn)
  /\ UNCHANGED <<inputMode, outputMode, now, sessions, upstreamClients,
                 client, shutIdx>>

\* ------------------------------------------ streamable input: POST <http_path>
\* StreamableHttpInputStrategy: handleConnection (mint the id, send the
\* headers, register the close listener) and then handleMessage.  The output
\* strategy's handleConnection is not called on this path.
HttpPost(c, p, f, r) ==
  /\ Budget
  /\ UNCHANGED <<dec, pump>>
  /\ Serving
  /\ inputMode = "streamable"
  /\ FreeConns # {} /\ c = NextConn
  /\ IdlePosts # {} /\ p = NextPost
  /\ LET sid == HttpSessionId(now, r)
         cn == [conn EXCEPT ![c] = [FreeConn EXCEPT !.st = "http", !.sid = sid]]
     IN HandleMessage(p, c, [IdlePost EXCEPT !.sid = sid, !.from = c, !.conn = c,
                                             !.frame = f], cn)
  /\ UNCHANGED <<inputMode, outputMode, now, sessions, upstreamClients,
                 client, shutIdx>>

\* ------------------------------------------- upstream NDJSON body, chunk decoding
\* A chunk is a sequence of tokens: a newline, whitespace, bytes that are not
\* JSON, a whole JSON text, or the first / second part of a JSON text that a
\* chunk boundary cut in two.
Tok(t, f) == [t |-> t, f |-> f]
Nl        == Tok("nl", NoFrame)
Ws        == Tok("ws", NoFrame)
Junk      == Tok("junk", NoFrame)
Json(f)   == Tok("json", f)
HeadOf(f) == Tok("head", f)
TailOf(f) == Tok("tail", f)

\* chunk.toString().split('\n')
RECURSIVE SplitLines(_)
SplitLines(s) ==
  IF s = <<>> THEN << <<>> >>
  ELSE LET rest == SplitLines(Tail(s))
       IN IF Head(s).t = "nl" THEN << <<>> >> \o rest
          ELSE << <<Head(s)>> \o rest[1] >> \o Tail(rest)

\* line.trim(): the line without its whitespace (only the ends matter, and
\* JSON.parse skips whitespace anyway)
RECURSIVE Trim(_)
Trim(line) ==
  IF line = <<>> THEN <<>>
  ELSE IF Head(line).t = "ws" THEN Trim(Tail(line))
  ELSE <<Head(line)>> \o Trim(Tail(line))

\* JSON.parse(line): the frame in a one-element sequence, or <<>> when it throws
JsonParse(line) ==
  LET t == Trim(line)
  IN IF Len(t) = 1 /\ t[1].t = "json" THEN <<t[1].f>>
     ELSE IF Len(t) = 2 /\ t[1].t = "head" /\ t[2].t = "tail" /\ t[1].f = t[2].f
          THEN <<t[1].f>>
     ELSE <<>>

\* (mutation: the loop stops at the first empty segment)
RECURSIVE ParseLines_StopAtEmpty(_)
ParseLines_StopAtEmpty(lines) ==
  IF lines = <<>> THEN <<>>
  ELSE IF Trim(Head(lines)) = <<>> THEN <<>>
  ELSE JsonParse(Head(lines)) \o ParseLines_StopAtEmpty(Tail(lines))

\* (mutation: the try / catch is around the loop, a bad line ends it)
RECURSIVE ParseLines_AbortOnInvalid(_)
ParseLines_AbortOnInvalid(lines) ==
  IF lines = <<>> THEN <<>>
  ELSE IF Trim(Head(lines)) = <<>> THEN ParseLines_AbortOnInvalid(Tail(lines))
  ELSE IF JsonParse(Head(lines)) = <<>> THEN <<>>
  ELSE JsonParse(Head(lines)) \o ParseLines_AbortOnInvalid(Tail(lines))

\* .filter(line => line.trim()) and the for loop with its try / catch
RECURSIVE ParseLines(_)
ParseLines(lines) ==
  IF lines = <<>> THEN <<>>
  ELSE (IF Trim(Head(lines)) = <<>> THEN <<>> ELSE JsonParse(Head(lines)))
       \o ParseLines(Tail(lines))

\* The frames one 'data' event hands to sendResponse, in order.
DecodeChunk(chunk) == ParseLines(SplitLines(chunk))

\* Chunks the upstream may deliver.
Chunks ==
  {<<Json(Result("a")), Nl>>,
   <<Json(Notification), Nl, Json(Result("b")), Nl>>,
   <<Junk, Nl, HeadOf(Result("a"))>>,
   <<Json(NoJsonRpc), Nl>>}

MaxChunk == 1      \* 'data' events per upstream response

\* ------------------------------------- streamable output: the upstream's answer
\* `await axios.post(...)` rejects: the outer catch of handleMessage.
AxiosReject(p) ==
  /\ Budget
  /\ UNCHANGED <<dec, pump>>
  /\ Serving
  /\ post[p].pc = "awaitPost"
  /\ LET cn2 == SendResponse(conn, post[p].conn,
                             ErrorResponse(post[p].frame.id, "Internal error"))
     IN /\ conn' = cn2
        /\ proc' \in ProcAfterFault(NewWae(cn2))
  /\ post' = [post EXCEPT ![p] = Failed(@)]
  /\ UNCHANGED <<inputMode, outputMode, now, sessions, upstreamClients,
                 client, sentUp, shutIdx>>

\* `await axios.post(...)` resolves with the response stream: the listeners
\* are registered and handleMessage returns.
AxiosResolve(p) ==
  /\ Budget
  /\ UNCHANGED <<dec, pump>>
  /\ Serving
  /\ post[p].pc = "awaitPost"
  /\ post' = [post EXCEPT ![p] = [Finished(@) EXCEPT !.pc = "streaming"]]
  /\ UNCHANGED <<inputMode, outputMode, proc, now, sessions, upstreamClients,
                 conn, client, sentUp, shutIdx>>

\* streamResponse 'data'
StreamData(p, chunk) ==
  /\ Budget
  /\ UNCHANGED <<dec, pump>>
  /\ Serving
  /\ post[p].pc = "streaming"
  /\ post[p].chunks < MaxChunk
  /\ LET cn2 == SendAll(conn, post[p].conn, DecodeChunk(chunk))
     IN /\ conn' = Received(cn2, post[p].conn, DecodeChunk(chunk))
        /\ proc' \in ProcAfterFault(NewWae(cn2))
  /\ post' = [post EXCEPT ![p].chunks = @ + 1]
  /\ UNCHANGED <<inputMode, outputMode, now, sessions, upstreamClients,
                 client, sentUp, shutIdx>>

\* streamResponse 'end': logged only
StreamEnd(p) ==
  /\ Budget
  /\ UNCHANGED <<dec, pump>>
  /\ Serving
  /\ post[p].pc = "streaming"
  /\ post' = [post EXCEPT ![p].pc = "done"]
  /\ UNCHANGED <<inputMode, outputMode, proc, now, sessions, upstreamClients,
                 conn, client, sentUp, shutIdx>>

\* streamResponse 'error'
StreamError(p) ==
  /\ Budget
  /\ UNCHANGED <<dec, pump>>
  /\ Serving
  /\ post[p].pc = "streaming"
  /\ LET cn2 == SendResponse(conn, post[p].conn,
                             ErrorResponse(post[p].frame.id, "Internal error"))
     IN /\ conn' = cn2
        /\ proc' \in ProcAfterFault(NewWae(cn2))
  /\ post' = [post EXCEPT ![p].pc = "failed"]
  /\ UNCHANGED <<inputMode, outputMode, now, sessions, upstreamClients,
                 client, sentUp, shutIdx>>

\* -------------------------------------------- SSE output: the upstream's answer
MaxNote == 1       \* upstream notifications per upstream client

\* `await client.request(...)` resolves with the upstream's result.
ReplyResult(p) ==
  /\ Budget
  /\ UNCHANGED <<dec, pump>>
  /\ Serving
  /\ post[p].pc = "awaitReply"
  /\ client[post[p].client] \in {"connecting", "connected"}
  /\ LET cn2 == SendResponse(conn, post[p].conn,
                             ResultResponse(post[p].frame.id, "ok"))
     IN /\ conn' = Received(cn2, post[p].conn,
                            <<ResultResponse(post[p].frame.id, "ok")>>)
        /\ proc' \in ProcAfterFault(NewWae(cn2))
  /\ post' = [post EXCEPT ![p] = Finished(@)]
  /\ UNCHANGED <<inputMode, outputMode, now, sessions, upstreamClients,
                 client, sentUp, shutIdx>>

\* The code of the error response the upstream answers with.
MethodNotFound == 0 - 32601

\* Why `client.request` rejects: the upstream answered with a JSON-RPC error
\* response (the SDK throws an McpError holding its code), or the request
\* timed out or the connection closed.
Causes(p) ==
  IF client[post[p].client] \in {"connecting", "connected"}
  THEN {"rpcError", "fault"} ELSE {"fault"}

\* `await client.request(...)` rejects: an upstream error response, the SDK's
\* request timeout, a closed connection.
ReplyError(p) ==
  /\ Budget
  /\ UNCHANGED <<dec, pump>>
  /\ Serving
  /\ post[p].pc = "awaitReply"
  /\ \E cause \in Causes(p) : post' = [post EXCEPT ![p] = [Failed(@) EXCEPT !.cause = cause]]
  /\ LET cn2 == SendResponse(conn, post[p].conn,
                             ErrorResponse(post[p].frame.id, "Internal error"))
     IN /\ conn' = cn2
        /\ proc' \in ProcAfterFault(NewWae(cn2))
  /\ UNCHANGED <<inputMode, outputMode, now, sessions, upstreamClients,
                 client, sentUp, shutIdx>>

\* `await client.notification(...)` resolves: logged only.
NotifyOk(p) ==
  /\ Budget
  /\ UNCHANGED <<dec, pump>>
  /\ Serving
  /\ post[p].pc = "awaitNotify"
  /\ post' = [post EXCEPT ![p] = Finished(@)]
  /\ UNCHANGED <<inputMode, outputMode, proc, now, sessions, upstreamClients,
                 conn, client, sentUp, shutIdx>>

\* `await client.notification(...)` rejects: the catch builds an error frame
\* whose id is undefined.
NotifyFail(p) ==
  /\ Budget
  /\ UNCHANGED <<dec, pump>>
  /\ Serving
  /\ post[p].pc = "awaitNotify"
  /\ LET cn2 == SendResponse(conn, post[p].conn,
                             ErrorResponse(post[p].frame.id, "Internal error"))
     IN /\ conn' = cn2
        /\ proc' \in ProcAfterFault(NewWae(cn2))
  /\ post' = [post EXCEPT ![p] = Failed(@)]
  /\ UNCHANGED <<inputMode, outputMode, now, sessions, upstreamClients,
                 client, sentUp, shutIdx>>

\* client.fallbackNotificationHandler: a notification arrives from upstream.
UpstreamNotify(c, n) ==
  /\ Budget
  /\ UNCHANGED <<dec, pump>>
  /\ Serving
  /\ client[c] = "connected"
  /\ conn[c].notes < MaxNote
  /\ LET cn2 == SendResponse(conn, c, NotificationMessage(n))
     IN /\ conn' = [Received(cn2, c, <<NotificationMessage(n)>>)
                       EXCEPT ![c].notes = @ + 1]
        /\ proc' \in ProcAfterFault(NewWae(cn2))
  /\ UNCHANGED <<inputMode, outputMode, now, sessions, upstreamClients,
                 client, post, sentUp, shutIdx>>

\* The upstream closes its SSE connection.  The proxy registers no handler
\* for it (no client.onclose, no transport.onclose).
UpstreamClose(c) ==
  /\ Budget
  /\ UNCHANGED <<dec, pump>>
  /\ Serving
  /\ client[c] = "connected"
  /\ client' = [client EXCEPT ![c] = "closed"]
  /\ UNCHANGED <<inputMode, outputMode, proc, now, sessions, upstreamClients,
                 conn, post, sentUp, shutIdx>>

\* ------------------------------------------------------------------- shutdown
\* process.on("SIGINT"): StreamableHttpOutputStrategy has no shutdown method,
\* so the process exits at once; SSEOutputStrategy.shutdown closes the
\* upstream clients one by one, awaiting each close.
Sigint ==
  /\ Budget
  /\ UNCHANGED <<dec, pump>>
  /\ proc = "running"
  /\ IF outputMode = "sse" /\ MapSize(upstreamClients) > 0
     THEN /\ proc' = "shutting"
          /\ shutIdx' = 1
          /\ client' = [client EXCEPT ![upstreamClients[1][2]] = "closed"]
     ELSE /\ proc' = "exited"
          /\ UNCHANGED <<shutIdx, client>>
  /\ UNCHANGED <<inputMode, outputMode, now, sessions, upstreamClients,
                 conn, post, sentUp>>

\* `await client.close()` settles: the loop goes on to the next entry of the
\* map (entries added meanwhile included), then clears it and exits.
ShutdownStep ==
  /\ Budget
  /\ UNCHANGED <<dec, pump>>
  /\ proc = "shutting"
  /\ IF shutIdx < MapSize(upstreamClients)
     THEN /\ shutIdx' = shutIdx + 1
          /\ client' = [client EXCEPT ![upstreamClients[shutIdx + 1][2]] = "closed"]
          /\ UNCHANGED <<proc, upstreamClients>>
     ELSE /\ upstreamClients' = <<>>
          /\ proc' = "exited"
          /\ UNCHANGED <<shutIdx, client>>
  /\ UNCHANGED <<inputMode, outputMode, now, sessions, conn, post, sentUp>>

\* ---------------------------------------------------------------- the system
Next ==
  \/ Tick
  \/ \E c \in Conns : Connect(c)
  \/ \E c \in Conns : ConnectOk(c)
  \/ \E c \in Conns : ConnectFail(c)
  \/ \E c \in Conns : ClientClose(c)
  \/ \E c \in Conns : Heartbeat(c)
  \/ \E p \in Posts, sid \in PostableIds, f \in ClientFrames : PostMessage(p, sid, f)
  \/ \E c \in Conns, p \in Posts, f \in ClientFrames, r \in Suffixes : HttpPost(c, p, f, r)
  \/ \E p \in Posts : AxiosReject(p)
  \/ \E p \in Posts : AxiosResolve(p)
  \/ \E p \in Posts, chunk \in Chunks : StreamData(p, chunk)
  \/ \E p \in Posts : StreamEnd(p)
  \/ \E p \in Posts : StreamError(p)
  \/ \E p \in Posts : ReplyResult(p)
  \/ \E p \in Posts : ReplyError(p)
  \/ \E p \in Posts : NotifyOk(p)
  \/ \E p \in Posts : NotifyFail(p)
  \/ \E c \in Conns : UpstreamNotify(c, Notification)
  \/ \E c \in Conns : UpstreamClose(c)
  \/ Sigint
  \/ ShutdownStep

Spec == Init /\ [][Next]_vars

\* --------------------------------- one upstream body, delivered chunk by chunk
MaxLines == 3      \* lines in an upstream NDJSON body

\* A line of the body, without its newline: a JSON text (two tokens, so that
\* a chunk boundary can fall inside it), bytes that are not JSON, or nothing.
JsonLine(f) == <<HeadOf(f), TailOf(f)>>
BodyLines == {JsonLine(f) : f \in UpstreamFrames} \cup {<<Junk>>, <<>>}
Bodies == UNION {[1..n -> BodyLines] : n \in 1..MaxLines}

\* The bytes of a body: every line followed by '\n'.
RECURSIVE Encode(_)
Encode(lines) ==
  IF lines = <<>> THEN <<>> ELSE Head(lines) \o <<Nl>> \o Encode(Tail(lines))

\* The proxy with streamable output, reading the response to one request.
DecoderInit ==
  /\ dec \in {[st |-> "reading", body |-> b, rest |-> Encode(b), out |-> <<>>,
               fed |-> 0, cut |-> FALSE] : b \in Bodies}
  /\ pump = NoPump
  /\ inputMode = "sse"
  /\ outputMode = "streamable"
  /\ proc = "running"
  /\ now = 0
  /\ sessions = <<>>
  /\ upstreamClients = <<>>
  /\ conn = [c \in Conns |-> FreeConn]
  /\ client = [c \in Conns |-> "none"]
  /\ post = [p \in Posts |-> IdlePost]
  /\ sentUp = <<>>
  /\ shutIdx = 0
  /\ events = 0

\* streamResponse 'data' with the next n bytes of the body: the frames of
\* the chunk are handed to sendResponse (dec.out), nothing is kept for the
\* next chunk.  cut: a chunk has ended inside a JSON text.
DataEvent(n) ==
  /\ dec.st = "reading"
  /\ n \in 1..Len(dec.rest)
  /\ LET chunk == SubSeq(dec.rest, 1, n)
     IN dec' = [dec EXCEPT !.rest = SubSeq(dec.rest, n + 1, Len(dec.rest)),
                           !.out = @ \o DecodeChunk(chunk),
                           !.fed = @ + 1,
                           !.cut = @ \/ chunk[n].t = "head"]
  /\ UNCHANGED <<inputMode, outputMode, proc, now, sessions, upstreamClients,
                 conn, client, post, sentUp, shutIdx, events, pump>>

\* streamResponse 'end'
EndEvent ==
  /\ dec.st = "reading"
  /\ dec.rest = <<>>
  /\ dec' = [dec EXCEPT !.st = "done"]
  /\ UNCHANGED <<inputMode, outputMode, proc, now, sessions, upstreamClients,
                 conn, client, post, sentUp, shutIdx, events, pump>>

DecoderNext ==
  \/ \E n \in 1..(3 * MaxLines) : DataEvent(n)
  \/ EndEvent

DecoderSpec == DecoderInit /\ [][DecoderNext]_vars

\* ------------------------------- one frontend response and a client that stalls
MaxHeld == 4       \* frames read from the upstream response in a run

\* The proxy with SSE input and streamable output, relaying one upstream
\* response to one client.
PumpInit ==
  /\ pump = [st |-> "flowing", draining |-> TRUE, held |-> <<>>, read |-> 0]
  /\ dec = NoBody
  /\ inputMode = "sse"
  /\ outputMode = "streamable"
  /\ proc = "running"
  /\ now = 0
  /\ sessions = <<>>
  /\ upstreamClients = <<>>
  /\ conn = [c \in Conns |-> FreeConn]
  /\ client = [c \in Conns |-> "none"]
  /\ post = [p \in Posts |-> IdlePost]
  /\ sentUp = <<>>
  /\ shutIdx = 0
  /\ events = 0

\* streamResponse 'data' with one line: sendResponse calls res.write and
\* ignores what it returns.  A record the socket does not take stays in the
\* response's buffer; the upstream stream is left flowing.
PumpData(f) ==
  /\ pump.st = "flowing"
  /\ pump.read < MaxHeld
  /\ pump' = IF pump.draining /\ pump.held = <<>>
             THEN [pump EXCEPT !.read = @ + 1]
             ELSE [pump EXCEPT !.read = @ + 1, !.held = Append(@, MessageEvent(f))]
  /\ UNCHANGED <<inputMode, outputMode, proc, now, sessions, upstreamClients,
                 conn, client, post, sentUp, shutIdx, events, dec>>

\* The client stops reading: the socket takes no more bytes.
ClientStalls ==
  /\ pump.st = "flowing"
  /\ pump.draining
  /\ pump' = [pump EXCEPT !.draining = FALSE]
  /\ UNCHANGED <<inputMode, outputMode, proc, now, sessions, upstreamClients,
                 conn, client, post, sentUp, shutIdx, events, dec>>

\* The client reads again: the buffer is flushed ('drain', which nothing
\* listens to).
ClientDrains ==
  /\ pump.st = "flowing"
  /\ ~pump.draining
  /\ pump' = [pump EXCEPT !.draining = TRUE, !.held = <<>>]
  /\ UNCHANGED <<inputMode, outputMode, proc, now, sessions, upstreamClients,
                 conn, client, post, sentUp, shutIdx, events, dec>>

PumpNext ==
  \/ \E f \in UpstreamFrames : PumpData(f)
  \/ ClientStalls
  \/ ClientDrains

PumpSpec == PumpInit /\ [][PumpNext]_vars

\* ------------------------------------------------------------------ GET /health
\* const sessions = new Map<string, SessionInfo>() of the main module: no
\* statement adds to it (the input strategy keeps its own map).
ProxySessions == <<>>

\* The body GET /health answers with.
Health ==
  [status |-> "healthy", inputMode |-> inputMode, outputMode |-> outputMode,
   sessions |-> MapSize(ProxySessions)]

\* ====================================================================== claims
\* Vocabulary of the claims.
InTable(c) == MapHas(sessions, conn[c].sid) /\ MapGet(sessions, conn[c].sid) = c
LiveSse(c) == inputMode = "sse" /\ conn[c].st \in {"connecting", "open"} /\ ~conn[c].gone
IsJsonRpcError(rec) ==
  rec.kind \in {"message", "ndjson"} /\ rec.frame.jsonrpc = "2.0"
  /\ rec.frame.error.code # 0
StreamIndexes(c) == 1..Len(conn[c].stream)

\* C1: a failure confined to one session never escapes it: when the upstream
\* connect fails during GET <sse_path>, no rejection leaves the route handler
\* and the process keeps running.
C1_FailureContained ==
  \A c \in Conns :
    conn[c].st = "failed" => ~conn[c].rejected /\ proc # "crashed"

\* C2: with streamable-HTTP input and SSE output, a POSTed request is handed
\* to an upstream SSE client bound to the session, and what is written back
\* on the HTTP response is the upstream's reply (not an error the proxy made
\* up for want of an upstream connection).
C2_HttpToSseForwards ==
  (inputMode = "streamable" /\ outputMode = "sse") =>
    \A p \in Posts :
      (post[p].pc \in {"done", "failed"} /\ post[p].frame.id # Absent) =>
        /\ \E i \in 1..Len(sentUp) : sentUp[i].conn = post[p].conn
        /\ \A i \in StreamIndexes(post[p].conn) :
             conn[post[p].conn].stream[i].frame.error.message
               # "No upstream connection found"

\* C3: any two distinct live sessions have different session ids, two SSE
\* connections admitted at the same clock reading included.
C3_UniqueSessionIds ==
  \A c, d \in Conns :
    (c # d /\ LiveSse(c) /\ LiveSse(d)) => conn[c].sid # conn[d].sid

\* C4: on every GET <sse_path> stream the first record is the endpoint event
\* with data messages/<session_id>, nothing precedes it, no second endpoint
\* event follows, and the session is in the table when it is written.
C4_EndpointFirst ==
  /\ [](\A c \in Conns :
          (inputMode = "sse" /\ conn[c].stream # <<>>) =>
            /\ conn[c].stream[1] = EndpointEvent(conn[c].sid)
            /\ \A i \in StreamIndexes(c) :
                 i > 1 => conn[c].stream[i].kind # "endpoint")
  /\ [][\A c \in Conns :
          (inputMode = "sse" /\ conn[c].stream = <<>> /\ conn'[c].stream # <<>>) =>
            /\ MapHas(sessions', conn'[c].sid)
            /\ MapGet(sessions', conn'[c].sid) = c]_vars

C4_Witness ==
  \E c \in Conns :
    /\ inputMode = "sse"
    /\ Len(conn[c].stream) >= 3
    /\ conn[c].stream[1].kind = "endpoint"
    /\ \E i, j \in StreamIndexes(c) :
         conn[c].stream[i].kind = "message" /\ conn[c].stream[j].kind = "ping"

\* C5: a POST to /messages/<id> whose id is not in the session table is
\* answered 404 {"error":"Session not found"} and changes nothing else: not
\* the table, not the upstream side, not any frontend stream.
C5_UnknownSessionNoEffect ==
  [][\A p \in Posts :
       (inputMode = "sse" /\ post[p].pc = "idle" /\ post'[p].pc # "idle"
        /\ ~MapHas(sessions, post'[p].sid)) =>
         /\ post'[p].pc = "done"
         /\ post'[p].status = 404
         /\ post'[p].body = "Session not found"
         /\ UNCHANGED <<sessions, upstreamClients, conn, client, sentUp, proc>>]_vars

C5_Witness ==
  \E p \in Posts, c \in Conns :
    /\ post[p].status = 404
    /\ conn[c].st = "open" /\ InTable(c)
    /\ post[p].sid # conn[c].sid

\* C6: on session hit the POST is answered 202 without waiting for the
\* upstream's reply: whenever the proxy is waiting for the reply to a frame
\* it forwarded, the 202 has already been sent.
C6_AcceptedBeforeReply ==
  \A p \in Posts :
    (inputMode = "sse" /\ post[p].pc = "awaitReply") => post[p].status = 202

\* C7: when forwarding a request with id X fails, the POST is answered 202 and
\* a JSON-RPC error frame with id X and code -32603 is on that session's SSE
\* stream (stated for sessions whose client has not gone away).
C7_ForwardFailureReported ==
  \A p \in Posts :
    (inputMode = "sse" /\ post[p].pc = "failed" /\ post[p].frame.id # Absent
     /\ ~conn[post[p].conn].gone) =>
      /\ post[p].status = 202
      /\ \E i \in StreamIndexes(post[p].conn) :
           LET rec == conn[post[p].conn].stream[i]
           IN /\ rec.kind = "message"
              /\ rec.frame.id = post[p].frame.id
              /\ rec.frame.error.code = InternalError

C9_ClosedNotInTable ==
  \A c \in Conns :
    (inputMode = "sse" /\ conn[c].st \in {"failed", "closed"}) => ~InTable(c)

\* C10: whenever the proxy has ended a session's frontend response, the
\* session has already been removed from the table.
C10_RemovedBeforeEnd ==
  \A c \in Conns : conn[c].ended => ~InTable(c)

\* Vocabulary of the claims C11..C20.
HoldsClient(c) == \E i \in 1..Len(upstreamClients) : upstreamClients[i][2] = c
PostsOf(c) == {p \in Posts : post[p].conn = c}
IsUpstreamRecord(rec) ==
  rec.kind \in {"message", "ndjson"} /\ rec.frame.error.code = 0
FramesOf(recs) == [i \in 1..Len(recs) |-> recs[i].frame]
Written(c) == FramesOf(SelectSeq(conn[c].stream, IsUpstreamRecord))

RECURSIVE IsSubseq(_, _)
IsSubseq(a, b) ==
  IF a = <<>> THEN TRUE
  ELSE IF b = <<>> THEN FALSE
  ELSE IF Head(a) = Head(b) THEN IsSubseq(Tail(a), Tail(b))
  ELSE IsSubseq(a, Tail(b))

\* A byte sequence that is a concatenation of complete SSE records.
RECURSIVE IsSseRecords(_)
IsSseRecords(b) ==
  \/ b = <<>>
  \/ /\ Len(b) >= 5
     /\ SubSeq(b, 1, 5) = <<"event", "nl", "data", "nl", "nl">>
     /\ IsSseRecords(SubSeq(b, 6, Len(b)))
  \/ /\ Len(b) >= 3
     /\ SubSeq(b, 1, 3) = <<"comment", "nl", "nl">>
     /\ IsSseRecords(SubSeq(b, 4, Len(b)))

\* A byte sequence that is a concatenation of complete NDJSON lines.
RECURSIVE IsNdjsonLines(_)
IsNdjsonLines(b) ==
  \/ b = <<>>
  \/ /\ Len(b) >= 2
     /\ SubSeq(b, 1, 2) = <<"json", "nl">>
     /\ IsNdjsonLines(SubSeq(b, 3, Len(b)))

\* C11: whenever an SSE client has closed its connection, at any point after
\* its GET was admitted, the heartbeat is cancelled and the session is out of
\* the table.
C11_CloseCleansUp ==
  \A c \in Conns :
    (inputMode = "sse" /\ conn[c].gone) => ~conn[c].hb /\ ~InTable(c)

\* C12: once the frontend's disconnect has been handled, both handles are
\* released: the upstream client of the session is closed and the output
\* strategy's map no longer holds it.
C12_UpstreamReleased ==
  \A c \in Conns :
    (inputMode = "sse" /\ outputMode = "sse" /\ conn[c].st = "closed") =>
      client[c] = "closed" /\ ~HoldsClient(c)

\* C13: when the upstream has closed its connection of an active session
\* (the proxy itself not shutting down), the frontend stream is ended and the
\* session is out of the table.
C13_UpstreamCloseEndsSession ==
  \A c \in Conns :
    (inputMode = "sse" /\ proc = "running" /\ client[c] = "closed") =>
      (conn[c].ended \/ conn[c].gone) /\ ~InTable(c)

\* C14: on the streamable-HTTP frontend the response is ended when, and only
\* when, a frame whose id is the id of the POSTed request has been written
\* (stated for clients that are still connected, whose writes go out).
C14_EndedIffCorrelated ==
  \A p \in Posts :
    (inputMode = "streamable" /\ post[p].conn # 0 /\ ~conn[post[p].conn].gone) =>
      LET r == conn[post[p].conn]
      IN r.ended <=>
           \E i \in 1..Len(r.stream) :
             /\ r.stream[i].frame.id # Absent
             /\ r.stream[i].frame.id = post[p].frame.id

\* C15: once the upstream exchange of a POST to <http_path> has completed
\* (body ended, or failed), the HTTP response has been ended, whatever the
\* POSTed frame and whatever the upstream sent.
C15_ResponseEnded ==
  \A p \in Posts :
    (inputMode = "streamable" /\ post[p].pc \in {"done", "failed"}) =>
      conn[post[p].conn].ended

\* C16: after a streamable-HTTP client has disconnected, the upstream work of
\* its session is cancelled: no further chunk of the upstream response is
\* taken and handed to the session's sendResponse.
C16_CancelledOnDisconnect ==
  [][\A p \in Posts :
       (inputMode = "streamable" /\ post[p].pc = "streaming"
        /\ conn[post[p].conn].gone) =>
         /\ post'[p].chunks = post[p].chunks
         /\ conn'[post[p].conn].recv = conn[post[p].conn].recv]_vars

\* C17: per session, frames go upstream in the order the frontend delivered
\* them, and the frames received from the upstream are written to the
\* session's frontend in the order received (all of them while the response
\* is open and the client connected).
C17_OrderPreserved ==
  /\ \A i, j \in 1..Len(sentUp) :
       (i < j /\ sentUp[i].conn = sentUp[j].conn) => sentUp[i].post < sentUp[j].post
  /\ \A c \in Conns :
       /\ IsSubseq(Written(c), conn[c].recv)
       /\ (~conn[c].gone /\ ~conn[c].ended) => Written(c) = conn[c].recv

C17_Witness ==
  \E c \in Conns :
    /\ Len(Written(c)) >= 2
    /\ Written(c)[1] # Written(c)[2]
    /\ \E i, j \in 1..Len(sentUp) :
         i < j /\ sentUp[i].conn = c /\ sentUp[j].conn = c

\* C18: what has been written to a frontend response is a concatenation of
\* complete SSE records (SSE frontend) or of complete NDJSON lines (HTTP
\* frontend), under every interleaving of message, heartbeat and error writes.
C18_CompleteRecords ==
  \A c \in Conns :
    IF inputMode = "sse" THEN IsSseRecords(Wire(conn[c].stream))
    ELSE IsNdjsonLines(Wire(conn[c].stream))

C18_Witness ==
  \E c \in Conns :
    /\ inputMode = "sse"
    /\ \E i, j, k \in StreamIndexes(c) :
         /\ i < j /\ j < k
         /\ conn[c].stream[i].kind = "ping"
         /\ conn[c].stream[j].kind = "message"
         /\ conn[c].stream[k].kind = "message"
         /\ conn[c].stream[k].frame.error.code = InternalError

\* C19: a step that handles the upstream's answer to a frame POSTed by the
\* client of session S writes to no frontend stream but S's own.
C19_RepliesToOwnStream ==
  [][\A p \in Posts :
       (post[p].from # 0 /\ post[p].pc \in {"streaming", "awaitReply"}
        /\ post'[p] # post[p]) =>
         \A d \in Conns :
           d # post[p].from => conn'[d].stream = conn[d].stream]_vars

\* C20: ids are preserved across the bridge: the frame sent upstream carries
\* the id the frontend supplied, and a reply received for a session carries
\* the id of a request POSTed on it.
C20_IdPreserved ==
  /\ \A i \in 1..Len(sentUp) :
       sentUp[i].frame.id = post[sentUp[i].post].frame.id
  /\ \A c \in Conns :
       outputMode = "sse" =>
         \A i \in 1..Len(conn[c].recv) :
           conn[c].recv[i].id # Absent =>
             \E p \in PostsOf(c) : post[p].frame.id = conn[c].recv[i].id

\* Vocabulary of the claims C21..C30.
InvalidRequest == 0 - 32600
IsFrameRecord(rec) == rec.kind \in {"message", "ndjson"}
IsJsonLine(line) == Len(line) = 2 /\ line[1].t = "head"

\* The frames of the JSON lines of a body, in order.
RECURSIVE FramesIn(_)
FramesIn(lines) ==
  IF lines = <<>> THEN <<>>
  ELSE (IF IsJsonLine(Head(lines)) THEN <<Head(lines)[1].f>> ELSE <<>>)
       \o FramesIn(Tail(lines))

HasJunk(lines) == \E i \in 1..Len(lines) : lines[i] = <<Junk>>

\* C21: every frame with an id written to a frontend answers a request with
\* that id received on the same session; only frames without id are written
\* unasked.
C21_RepliesHaveRequests ==
  \A c \in Conns :
    \A i \in StreamIndexes(c) :
      (IsFrameRecord(conn[c].stream[i]) /\ conn[c].stream[i].frame.id # Absent) =>
        \E p \in PostsOf(c) : post[p].frame.id = conn[c].stream[i].frame.id

\* C22: a frame received from the frontend goes upstream verbatim: the frame
\* sent has exactly the fields of the frame received, unknown fields included.
C22_ForwardedVerbatim ==
  \A i \in 1..Len(sentUp) : sentUp[i].frame = post[sentUp[i].post].frame

\* C23: a frame received from the upstream reaches the frontend verbatim; an
\* upstream JSON-RPC error response reaches it with the upstream's own code.
C23_UpstreamVerbatim ==
  /\ \A c \in Conns : IsSubseq(Written(c), conn[c].recv)
  /\ \A p \in Posts :
       (post[p].cause = "rpcError" /\ ~conn[post[p].conn].gone
        /\ ~conn[post[p].conn].ended) =>
         \E i \in StreamIndexes(post[p].conn) :
           /\ conn[post[p].conn].stream[i].frame.id = post[p].frame.id
           /\ conn[post[p].conn].stream[i].frame.error.code = MethodNotFound

\* C24: every frame the proxy forwards, in either direction, has jsonrpc
\* "2.0", whether or not the incoming frame had the field.
C24_JsonRpcVersion ==
  /\ \A i \in 1..Len(sentUp) : sentUp[i].frame.jsonrpc = "2.0"
  /\ \A c \in Conns :
       \A i \in StreamIndexes(c) :
         IsFrameRecord(conn[c].stream[i]) => conn[c].stream[i].frame.jsonrpc = "2.0"

\* C25: a frame from the frontend that has no `method` is never sent to the
\* upstream, and once it has been handled an error reply with code -32600 and
\* the frame's id is on the frontend's stream.
C25_InvalidRequestRejected ==
  \A p \in Posts :
    (post[p].conn # 0 /\ post[p].frame.method = Absent) =>
      /\ \A i \in 1..Len(sentUp) : sentUp[i].post # p
      /\ (post[p].pc \in {"done", "failed"} /\ ~conn[post[p].conn].gone
          /\ ~conn[post[p].conn].ended) =>
           \E i \in StreamIndexes(post[p].conn) :
             /\ conn[post[p].conn].stream[i].frame.id = post[p].frame.id
             /\ conn[post[p].conn].stream[i].frame.error.code = InvalidRequest

\* C26: a failure that no request id correlates is logged only: no error
\* frame without an id is ever written to a frontend.
C26_UncorrelatedErrorsSilent ==
  \A c \in Conns :
    \A i \in StreamIndexes(c) :
      (IsFrameRecord(conn[c].stream[i]) /\ conn[c].stream[i].frame.error.code # 0) =>
        conn[c].stream[i].frame.id # Absent

\* C27: decoding does not depend on how the body is cut into chunks: when the
\* body has ended, the frames handed on are exactly the frames of its lines,
\* in order.
C27_ChunkingIndependent ==
  dec.st = "done" => dec.out = FramesIn(dec.body)

C30_NotificationSilent ==
  [][\A p \in Posts :
       (inputMode = "sse" /\ outputMode = "sse" /\ post'[p] # post[p]
        /\ post'[p].conn # 0
        /\ post'[p].frame.id = Absent /\ post'[p].frame.method # Absent) =>
         /\ \A c \in Conns : conn'[c].stream = conn[c].stream
         /\ \E i \in 1..Len(sentUp') :
              sentUp'[i].post = p /\ sentUp'[i].frame = SdkNotification(post'[p].frame)
         /\ post'[p].pc \in {"done", "failed"} => post'[p].status = 202]_vars

\* Vocabulary of the claims C31..C40.
FrameRecords(stream) == SelectSeq(stream, IsFrameRecord)
OpenSse(c) == conn[c].st \in {"connecting", "open"} /\ ~conn[c].gone

\* C31: a heartbeat tick that finds the socket dead writes nothing, raises
\* nothing and ends the heartbeat; nothing is written by a heartbeat to a
\* dead socket, and a heartbeat that has ended is never started again.
C31_HeartbeatStopsOnDeadSocket ==
  [][\A c \in Conns :
       /\ conn[c].gone =>
            /\ conn'[c].pings = conn[c].pings
            /\ conn'[c].stream = conn[c].stream
       /\ (conn[c].hb /\ ~conn'[c].hb) =>
            /\ conn'[c].gone
            /\ conn'[c].stream = conn[c].stream
            /\ proc' = proc
       /\ (~conn[c].hb /\ conn'[c].hb) => conn[c].st \in {"free", "connecting"}]_vars

C31_Witness ==
  \E c \in Conns :
    conn[c].st = "open" /\ conn[c].gone /\ ~conn[c].hb /\ proc = "running"

\* C32: when the process has exited after the shutdown signal, every session
\* that was open has had its frontend stream ended, is out of the table, and
\* its upstream client is closed.
C32_ShutdownClosesSessions ==
  proc = "exited" =>
    \A c \in Conns :
      (inputMode = "sse" /\ OpenSse(c)) =>
        /\ conn[c].ended
        /\ ~InTable(c)
        /\ outputMode = "sse" => client[c] = "closed"

\* C33: between the shutdown signal and the exit no connection is admitted
\* and no request is handled.
C33_NoAcceptAfterSignal ==
  [][proc = "shutting" =>
       /\ \A c \in Conns : conn[c].st = "free" => conn'[c].st = "free"
       /\ \A p \in Posts : post[p].pc = "idle" => post'[p].pc = "idle"]_vars

\* C34: back-pressure: while a write to the frontend has not been accepted
\* no further frame is read from the upstream, so a response never holds more
\* than one unsent record.
C34_BackPressure == Len(pump.held) <= 1

\* C35: the `sessions` value of GET /health is the number of sessions open.
C35_HealthCountsSessions ==
  inputMode = "sse" =>
    Health.sessions = Cardinality({c \in Conns : OpenSse(c)})

\* C36: for a request id X forwarded on a session at most one response frame
\* with id X is written per request that carried X, also when the upstream
\* response delivers the reply and then fails.
C36_OneResponsePerRequest ==
  \A c \in Conns :
    (\E p \in PostsOf(c) : post[p].frame.id = "a") =>
      Len(SelectSeq(FrameRecords(conn[c].stream), LAMBDA r : r.frame.id = "a"))
        <= Cardinality({p \in PostsOf(c) : post[p].frame.id = "a"})

\* C37: on the streamable-HTTP frontend no write and no end reaches a
\* response that has already been ended.
C37_NoWriteAfterEnd ==
  \A c \in Conns : inputMode = "streamable" => ~conn[c].wae

\* C38: in SSE-output mode a POSTed frame is handed to the session's upstream
\* client only when that client's connect has succeeded.
C38_ForwardOnlyWhenConnected ==
  [][\A p \in Posts :
       (outputMode = "sse" /\ post[p].pc = "idle"
        /\ post'[p].pc \in {"awaitReply", "awaitNotify"}) =>
         client[post'[p].client] = "connected"]_vars

\* C39: the disconnect of one SSE session leaves every other open session in
\* the table.
C39_DisconnectFrame ==
  [][\A c \in Conns :
       (inputMode = "sse" /\ ~conn[c].gone /\ conn'[c].gone) =>
         \A d \in Conns : (d # c /\ InTable(d)) => InTable(d)']_vars

\* C40: once an SSE session is out of the table no further frame is written
\* to its frontend stream.
C40_NoWriteAfterRemoval ==
  [][\A c \in Conns :
       (inputMode = "sse" /\ conn[c].st # "free" /\ ~InTable(c)) =>
         FrameRecords(conn'[c].stream) = FrameRecords(conn[c].stream)]_vars

====
